---- MODULE Spec2Model ----
(***************************************************************************)
(* A model of the scene viewer: the OBJ loader (assignment1.objloader.js), *)
(* the scenegraph (assignment1.scene.js) and the application object that   *)
(* owns the active scene.                                                  *)
(*                                                                         *)
(* Numbers.  A JavaScript number is modelled as a pair <<n, d>> of         *)
(* integers with d >= 0, read as the quotient n/d: d > 0 is a finite       *)
(* value, <<n, 0>> with n # 0 is +/-Infinity and <<0, 0>> is NaN.          *)
(* Rounding is not modelled: the arithmetic is exact.                      *)
(*                                                                         *)
(* Matrices.  A transformation is a homogeneous affine matrix.  The model  *)
(* keeps one spatial dimension: <<a, b>> is the matrix [[a, b], [0, 1]],   *)
(* and the product is the matrix product, which is not commutative.        *)
(***************************************************************************)
EXTENDS Integers, Sequences, FiniteSets, TLC

VARIABLES
    scene,    \* WebGlApp.scene: NoScene (null) or the installed Scene
    pc,       \* "idle", or "building" while a Scene constructor is running
    build,    \* the Scene under construction (kept as it was when a build threw)
    err,      \* the exception thrown by the last call, NoError when it returned
    call,     \* the last call made: [op, arg, val], val the value it returned
    obj,      \* the contents of the OBJ file handed to a stand-alone OBJLoader
    camera    \* WebGlApp.right and WebGlApp.up, the view-space vectors

vars == <<scene, pc, build, err, call, obj, camera>>

\* Bounds of the model.
MaxVerts == 2    \* vertex records of a generated OBJ file
MaxFaces == 2    \* face records of a generated OBJ file

NoError == "none"
UnsupportedFaceFormat == "Unsupported face format"

(***************************************************************************)
(* JavaScript numbers                                                      *)
(***************************************************************************)
Num(i) == <<i, 1>>
Sign(i) == IF i < 0 THEN -1 ELSE 1
Abs(i) == IF i < 0 THEN -i ELSE i
IsNaN(x) == x[1] = 0 /\ x[2] = 0
IsFinite(x) == x[2] > 0
FAdd(x, y) == <<x[1] * y[2] + y[1] * x[2], x[2] * y[2]>>
FNeg(x) == <<-x[1], x[2]>>
FMul(x, y) == <<x[1] * y[1], x[2] * y[2]>>
FDiv(x, y) == <<x[1] * y[2] * Sign(y[1]), x[2] * Abs(y[1])>>
FEq(x, y) == IsFinite(x) /\ IsFinite(y) /\ x[1] * y[2] = y[1] * x[2]
FLe(x, y) == IsFinite(x) /\ IsFinite(y) /\ x[1] * y[2] <= y[1] * x[2]

Min2(a, b) == IF a <= b THEN a ELSE b
Max2(a, b) == IF a >= b THEN a ELSE b

(***************************************************************************)
(* OBJLoader.  A file is a sequence of lines.  A vertex line "v x y z" is  *)
(* [kind |-> "v", parts |-> <<x, y, z>>]; a face line "f r1 r2 ..." is     *)
(* [kind |-> "f", parts |-> <<r1, r2, ...>>], each reference the sequence  *)
(* of its slash-separated numeric fields; any other line has kind "#".     *)
(***************************************************************************)
\* Stands for Number.MAX_VALUE: larger than every coordinate of the model.
MAX_VALUE == 1000

parseVertex(line) == <<line.parts[1], line.parts[2], line.parts[3]>>

triangulateFace_swapped(face) ==
    <<face[1], face[2], face[3], face[2], face[3], face[4]>>

triangulateFace(face) ==
    <<face[1], face[2], face[3], face[1], face[3], face[4]>>

\* [err, val]: the thrown string, or the returned index list.
parseFace(line) ==
    LET parts == line.parts
        indices == [i \in 1..Len(parts) |-> parts[i][1] - 1]
    IN  IF Len(indices) = 3 THEN [err |-> NoError, val |-> indices]
        ELSE IF Len(indices) = 4
             THEN [err |-> NoError, val |-> triangulateFace(indices)]
        ELSE [err |-> UnsupportedFaceFormat, val |-> <<>>]

\* The loop over the lines (load, lines 38-55), from line i on.
RECURSIVE loadLines(_, _, _)
loadLines(lines, i, acc) ==
    IF i > Len(lines) THEN acc
    ELSE LET line == lines[i] IN
         IF line.kind = "v" THEN
            LET vertex == parseVertex(line) IN
            loadLines(lines, i + 1,
                [acc EXCEPT !.vertices = Append(@, vertex),
                            !.minExtent = [j \in 1..3 |-> Min2(@[j], vertex[j])],
                            !.maxExtent = [j \in 1..3 |-> Max2(@[j], vertex[j])]])
         ELSE IF line.kind = "f" THEN
            LET faceIndices == parseFace(line) IN
            IF faceIndices.err # NoError
            THEN [acc EXCEPT !.err = faceIndices.err]
            ELSE loadLines(lines, i + 1,
                    [acc EXCEPT !.indices = @ \o faceIndices.val])
         ELSE loadLines(lines, i + 1, acc)

\* vertices.flat()
RECURSIVE flat(_)
flat(vs) == IF vs = <<>> THEN <<>> ELSE Head(vs) \o flat(Tail(vs))

normalizeScale(minExtent, maxExtent) ==
    FDiv(Num(2), Num(Max2(maxExtent[1] - minExtent[1],
                          Max2(maxExtent[2] - minExtent[2],
                               maxExtent[3] - minExtent[3]))))

normalizeOffset_uncentered(minExtent, maxExtent) ==
    [j \in 1..3 |-> FNeg(Num(minExtent[j]))]

normalizeOffset(minExtent, maxExtent) ==
    [j \in 1..3 |-> FDiv(FNeg(Num(maxExtent[j] + minExtent[j])), Num(2))]

\* [err, val]: the thrown string, or the pair [vertices, indices] returned.
load(contents) ==
    LET parsed == loadLines(contents, 1,
                    [err |-> NoError, vertices |-> <<>>, indices |-> <<>>,
                     minExtent |-> <<MAX_VALUE, MAX_VALUE, MAX_VALUE>>,
                     maxExtent |-> <<-MAX_VALUE, -MAX_VALUE, -MAX_VALUE>>])
        scale == normalizeScale(parsed.minExtent, parsed.maxExtent)
        offset == normalizeOffset(parsed.minExtent, parsed.maxExtent)
        vertices == [i \in 1..Len(parsed.vertices) |->
                       [j \in 1..3 |->
                          FMul(FAdd(Num(parsed.vertices[i][j]), offset[j]), scale)]]
    IN  IF parsed.err # NoError
        THEN [err |-> parsed.err, val |-> <<>>]
        ELSE [err |-> NoError,
              val |-> [vertices |-> flat(vertices), indices |-> parsed.indices]]

(***************************************************************************)
(* Matrices (mat4)                                                         *)
(***************************************************************************)
\* mat4.create(): the identity
mat4_create == <<1, 0>>

\* mat4.multiply(out, a, b): out = a * b
mat4_multiply(a, b) == <<a[1] * b[1], a[1] * b[2] + a[2]>>

\* json2transform: translate * scale of the description
json2transform(d) == <<d.scale, d.translation>>

(***************************************************************************)
(* SceneNode / ModelNode.  The node objects of one Scene live in `nodes`,  *)
(* a sequence indexed by node id; parent is a node id or 0 (null), and     *)
(* children is a sequence of node ids.                                     *)
(***************************************************************************)
TRIANGLES == "TRIANGLES"
POINTS == "POINTS"

\* new Object3D(gl, shader, vertices, indices, gl.TRIANGLES)
Object3D_new(mesh, draw_mode) ==
    [present |-> TRUE, transformation |-> mat4_create,
     draw_mode |-> draw_mode, mesh |-> mesh]

\* A SceneNode that is no ModelNode owns no Object3D.
NoObject3D ==
    [present |-> FALSE, transformation |-> mat4_create,
     draw_mode |-> TRIANGLES, mesh |-> [vertices |-> <<>>, indices |-> <<>>]]

\* Object3D.setTransformation(transformation)
Object3D_setTransformation(o, transformation) ==
    [o EXCEPT !.transformation = transformation]

\* this up to the root: the local transformations, this node's first.
RECURSIVE getTransformationHierarchy(_, _, _)
getTransformationHierarchy(nodes, n, transformations) ==
    LET pushed == Append(transformations, nodes[n].transformation)
    IN  IF nodes[n].parent # 0
        THEN getTransformationHierarchy(nodes, nodes[n].parent, pushed)
        ELSE pushed

reverse(s) == [i \in 1..Len(s) |-> s[Len(s) + 1 - i]]

RECURSIVE multiplyAll(_, _, _)
multiplyAll(world, transformations, i) ==
    IF i > Len(transformations) THEN world
    ELSE multiplyAll(mat4_multiply(world, transformations[i]), transformations, i + 1)

calculateWorldTransformation(nodes, n) ==
    multiplyAll(mat4_create,
                reverse(getTransformationHierarchy(nodes, n, <<>>)), 1)

\* new SceneNode(name, type, transformation): the world transformation is
\* computed while the node has no parent.
SceneNode_new(name, type, transformation) ==
    LET fresh == [name |-> name, type |-> type,
                  transformation |-> transformation,
                  world_transformation |-> mat4_create,
                  parent |-> 0, children |-> <<>>, obj3d |-> NoObject3D]
    IN  [fresh EXCEPT !.world_transformation =
                          calculateWorldTransformation(<<fresh>>, 1)]

\* new ModelNode(obj3d, name, type, transformation)
ModelNode_new(obj3d, name, type, transformation) ==
    [SceneNode_new(name, type, transformation) EXCEPT !.obj3d = obj3d]

isModelNode(node) == node.obj3d.present

setParent_recomputing(nodes, n, node) ==
    LET linked == [nodes EXCEPT ![n].parent = node]
    IN  [linked EXCEPT ![n].world_transformation =
                           calculateWorldTransformation(linked, n)]

setParent(nodes, n, node) == [nodes EXCEPT ![n].parent = node]

addChild_prepending(nodes, n, node) == [nodes EXCEPT ![n].children = <<node>> \o @]

addChild(nodes, n, node) == [nodes EXCEPT ![n].children = Append(@, node)]

RECURSIVE setTransformation(_, _, _)
RECURSIVE setChildren(_, _, _)

setChildren_sameTransformation(nodes, n, i) ==
    IF i > Len(nodes[n].children) THEN nodes
    ELSE LET child == nodes[n].children[i]
         IN  setChildren(setTransformation(nodes, child, nodes[n].transformation),
                         n, i + 1)

\* for (let child of this.children) child.setTransformation(child.transformation)
setChildren(nodes, n, i) ==
    IF i > Len(nodes[n].children) THEN nodes
    ELSE LET child == nodes[n].children[i]
         IN  setChildren(setTransformation(nodes, child, nodes[child].transformation),
                         n, i + 1)

SceneNode_setTransformation_noChildren(nodes, n, transformation) ==
    LET assigned == [nodes EXCEPT ![n].transformation = transformation]
    IN  [assigned EXCEPT ![n].world_transformation =
                             calculateWorldTransformation(assigned, n)]

SceneNode_setTransformation(nodes, n, transformation) ==
    LET assigned == [nodes EXCEPT ![n].transformation = transformation]
        refreshed == setChildren(assigned, n, 1)
    IN  [refreshed EXCEPT ![n].world_transformation =
                              calculateWorldTransformation(refreshed, n)]

ModelNode_setTransformation_noPush(nodes, n, transformation) ==
    SceneNode_setTransformation(nodes, n, transformation)

ModelNode_setTransformation(nodes, n, transformation) ==
    LET done == SceneNode_setTransformation(nodes, n, transformation)
    IN  [done EXCEPT ![n].obj3d =
            Object3D_setTransformation(@, done[n].world_transformation)]

\* node.setTransformation(transformation), dispatched on the node's class
setTransformation(nodes, n, transformation) ==
    IF isModelNode(nodes[n])
    THEN ModelNode_setTransformation(nodes, n, transformation)
    ELSE SceneNode_setTransformation(nodes, n, transformation)

RECURSIVE SceneNode_getNodes(_, _, _)
RECURSIVE getNodesOfChildren(_, _, _, _)

getNodesOfChildren(nodes, n, i, list) ==
    IF i > Len(nodes[n].children) THEN list
    ELSE getNodesOfChildren(nodes, n, i + 1,
                            SceneNode_getNodes(nodes, nodes[n].children[i], list))

SceneNode_getNodes_childrenFirst(nodes, n, list) ==
    Append(getNodesOfChildren(nodes, n, 1, list), n)

SceneNode_getNodes(nodes, n, list) ==
    getNodesOfChildren(nodes, n, 1, Append(list, n))

RECURSIVE SceneNode_getNode(_, _, _)
RECURSIVE getNodeOfChildren(_, _, _, _)

\* the loop over the children: the first non-null result, or 0 (null)
getNodeOfChildren(nodes, n, i, name) ==
    IF i > Len(nodes[n].children) THEN 0
    ELSE LET node == SceneNode_getNode(nodes, nodes[n].children[i], name)
         IN  IF node # 0 THEN node
             ELSE getNodeOfChildren(nodes, n, i + 1, name)

RECURSIVE SceneNode_getNode_lastChildFirst(_, _, _)
RECURSIVE getNodeOfChildrenBackwards(_, _, _, _)

getNodeOfChildrenBackwards(nodes, n, i, name) ==
    IF i < 1 THEN 0
    ELSE LET node == SceneNode_getNode_lastChildFirst(nodes, nodes[n].children[i], name)
         IN  IF node # 0 THEN node
             ELSE getNodeOfChildrenBackwards(nodes, n, i - 1, name)

SceneNode_getNode_lastChildFirst(nodes, n, name) ==
    IF nodes[n].name = name THEN n
    ELSE getNodeOfChildrenBackwards(nodes, n, Len(nodes[n].children), name)

SceneNode_getNode(nodes, n, name) ==
    IF nodes[n].name = name THEN n
    ELSE getNodeOfChildren(nodes, n, 1, name)

(***************************************************************************)
(* Scene                                                                   *)
(***************************************************************************)
ModelNotFound == "Unable to find model"
TypeError == "TypeError"
NodeNotFound == "Node not found in scenegraph"

\* The empty object {}.
NoModels == [name \in {} |-> <<>>]

\* loadModels from entry i on: [err, val], val the name-keyed table.
RECURSIVE loadModelsFrom(_, _, _)
loadModelsFrom(models_config, i, models) ==
    IF i > Len(models_config) THEN [err |-> NoError, val |-> models]
    ELSE LET model_config == models_config[i]
             loaded == load(model_config.obj)
         IN  IF loaded.err # NoError THEN [err |-> loaded.err, val |-> models]
             ELSE loadModelsFrom(models_config, i + 1,
                    [name \in DOMAIN models \cup {model_config.name} |->
                        IF name = model_config.name THEN loaded.val
                        ELSE models[name]])

loadModels(models_config) == loadModelsFrom(models_config, 1, NoModels)

\* `!name in this.models` parses as `(!name) in this.models`: the key tested
\* is the string of the boolean !name.
notNameInModels(name, models) ==
    (IF name = "" THEN "true" ELSE "false") \in DOMAIN models

\* [err, val]: the exception, or the Object3D returned.
instantiateModel(models, name) ==
    IF notNameInModels(name, models)
    THEN [err |-> ModelNotFound, val |-> NoObject3D]
    ELSE IF name \notin DOMAIN models       \* destructuring undefined
    THEN [err |-> TypeError, val |-> NoObject3D]
    ELSE [err |-> NoError, val |-> Object3D_new(models[name], TRIANGLES)]

\* The switch of loadScenegraphNode: [err, val], val the node created.
createNode(models, node_config) ==
    IF node_config.type = "node"
    THEN [err |-> NoError,
          val |-> SceneNode_new(node_config.name, node_config.type,
                                json2transform(node_config.transformation))]
    ELSE LET obj3d == instantiateModel(models, node_config.content)
         IN  IF obj3d.err # NoError
             THEN [err |-> obj3d.err, val |-> obj3d.val]
             ELSE [err |-> NoError,
                   val |-> ModelNode_new(obj3d.val, node_config.name,
                               node_config.type,
                               json2transform(node_config.transformation))]

\* The last statement of the Scene constructor.
setRootTransformation_skipped(nodes, root) == nodes

setRootTransformation(nodes, root) ==
    setTransformation(nodes, root, nodes[root].transformation)

Scene_getNodes(s) == SceneNode_getNodes(s.nodes, s.scenegraph, <<>>)

Scene_getNode_fallingBackToRoot(s, name) ==
    LET node == SceneNode_getNode(s.nodes, s.scenegraph, name)
    IN  [err |-> NoError, val |-> IF node = 0 THEN s.scenegraph ELSE node]

\* [err, val]: the exception, or the node found.
Scene_getNode(s, name) ==
    LET node == SceneNode_getNode(s.nodes, s.scenegraph, name)
    IN  IF node = 0 THEN [err |-> NodeNotFound, val |-> 0]
        ELSE [err |-> NoError, val |-> node]

RECURSIVE render(_, _, _)
RECURSIVE renderChildren(_, _, _, _)

\* for (let child of this.children) child.render(gl); draws is the
\* sequence of nodes whose renderable has drawn so far.
renderChildren(nodes, n, i, draws) ==
    IF i > Len(nodes[n].children) THEN draws
    ELSE renderChildren(nodes, n, i + 1, render(nodes, nodes[n].children[i], draws))

SceneNode_render(nodes, n, draws) == renderChildren(nodes, n, 1, draws)

ModelNode_render_childrenFirst(nodes, n, draws) ==
    Append(SceneNode_render(nodes, n, draws), n)

\* this.obj3d.render(gl); super.render(gl)
ModelNode_render(nodes, n, draws) ==
    SceneNode_render(nodes, n, Append(draws, n))

\* node.render(gl), dispatched on the node's class
render(nodes, n, draws) ==
    IF isModelNode(nodes[n])
    THEN ModelNode_render(nodes, n, draws)
    ELSE SceneNode_render(nodes, n, draws)

Scene_render(s) == render(s.nodes, s.scenegraph, <<>>)

\* WebGlApp.render: the box, then the scene if there is one.
WebGlApp_render(s) ==
    [box |-> TRUE, scene |-> IF s.loaded THEN Scene_render(s) ELSE <<>>]

undefined == "undefined"

\* update, lines 77-81: the GL draw mode of the UI's 'Draw Mode' state.
glDrawMode(drawMode) ==
    IF drawMode = "Points" THEN POINTS
    ELSE IF drawMode = "Triangles" THEN TRIANGLES
    ELSE undefined

Object3D_setDrawMode(o, draw_mode) == [o EXCEPT !.draw_mode = draw_mode]

ModelNode_setDrawMode(nodes, n, draw_mode) ==
    [nodes EXCEPT ![n].obj3d = Object3D_setDrawMode(@, draw_mode)]

RECURSIVE setDrawModes(_, _, _, _)

setDrawModes_firstModelOnly(nodes, list, i, draw_mode) ==
    IF i > Len(list) THEN nodes
    ELSE IF nodes[list[i]].type = "model"
         THEN ModelNode_setDrawMode(nodes, list[i], draw_mode)
         ELSE setDrawModes(nodes, list, i + 1, draw_mode)

\* update, lines 85-89: for (let node of this.scene.getNodes())
\*     if (node instanceof SceneNode && node.type === "model") node.setDrawMode(...)
setDrawModes(nodes, list, i, draw_mode) ==
    IF i > Len(list) THEN nodes
    ELSE setDrawModes(IF nodes[list[i]].type = "model"
                      THEN ModelNode_setDrawMode(nodes, list[i], draw_mode)
                      ELSE nodes,
                      list, i + 1, draw_mode)

\* The matrix helpers of updateSceneNode on the modelled axis.  A rotation
\* about an axis with no component on the modelled axis turns that axis
\* over (a half turn) when its angle is not zero; a rotation about the
\* modelled axis itself leaves it alone.
mat4_scale(m, v) == mat4_multiply(m, <<v, 0>>)
mat4_translate(m, v) == mat4_multiply(m, <<1, v>>)
mat4_rotate(m, angle, axis) ==
    IF angle = 0 \/ axis # 0 THEN m ELSE mat4_multiply(m, <<-1, 0>>)

\* The frame time handed to update.
DeltaTime == 2

isMouseDown(mouse, button) == mouse.down[button + 1]

\* The three mouse conditions of updateCamera and updateSceneNode.
zooming(mouse) == isMouseDown(mouse, 2)
rotating(mouse) == isMouseDown(mouse, 0) /\ ~mouse.space
panning(mouse) ==
    isMouseDown(mouse, 1) \/ (isMouseDown(mouse, 0) /\ mouse.space)

updateSceneNode_unguarded(nodes, n, view, mouse) ==
    LET panX == (mouse.dx * DeltaTime) \div 2
        translation == mat4_translate(mat4_create, view.right * panX)
        transformation == mat4_multiply(translation, nodes[n].transformation)
    IN  setTransformation(nodes, n, transformation)

\* updateSceneNode(node, delta_time); view holds this.right and this.up.
updateSceneNode(nodes, n, view, mouse) ==
    LET scale ==
            IF zooming(mouse)
            THEN mat4_scale(mat4_create, 1 + (mouse.dy * DeltaTime) \div 10)
            ELSE mat4_create
        deltaY == 0 - ((mouse.dx * DeltaTime) \div 2)
        deltaX == (mouse.dy * DeltaTime) \div 2
        rotation ==
            IF rotating(mouse)
            THEN mat4_rotate(mat4_rotate(mat4_create, deltaY, 0), deltaX, view.right)
            ELSE mat4_create
        panX == (mouse.dx * DeltaTime) \div 2
        panY == 0 - ((mouse.dy * DeltaTime) \div 2)
        translation ==
            IF panning(mouse)
            THEN mat4_translate(mat4_translate(mat4_create, view.right * panX),
                                view.up * panY)
            ELSE mat4_create
        node_dirty == zooming(mouse) \/ rotating(mouse) \/ panning(mouse)
        rotated == mat4_multiply(rotation, nodes[n].transformation)
        scaled == mat4_multiply(scale, rotated)
        transformation == mat4_multiply(translation, scaled)
    IN  IF node_dirty THEN setTransformation(nodes, n, transformation) ELSE nodes

\* updateCamera(delta_time): when the view is dirty, updateViewSpaceVectors
\* recomputes this.right and this.up from the moved eye and centre; moved is
\* the outcome, which depends on the dimensions outside the modelled axis.
updateCamera(view, mouse, moved) ==
    LET view_dirty == zooming(mouse) \/ rotating(mouse) \/ panning(mouse)
    IN  IF view_dirty THEN moved ELSE view

\* update(gl, app_state, delta_time): [scene, camera, err] after the call;
\* in holds the UI state and the mouse.
WebGlApp_update(s, view, in, moved) ==
    LET drawn ==
            IF s.loaded
            THEN [s EXCEPT !.nodes = setDrawModes(@, Scene_getNodes(s), 1,
                                                  glDrawMode(in.drawMode))]
            ELSE s
    IN  IF in.control = "Camera"
        THEN [scene |-> drawn, camera |-> updateCamera(view, in.mouse, moved),
              err |-> NoError]
        ELSE IF in.control = "Scene Node" /\ s.loaded
        THEN LET scene_node == Scene_getNode(drawn, in.select)
             IN  IF scene_node.err # NoError
                 THEN [scene |-> drawn, camera |-> view, err |-> scene_node.err]
                 ELSE [scene |-> [drawn EXCEPT !.nodes =
                                     updateSceneNode(@, scene_node.val, view, in.mouse)],
                       camera |-> view, err |-> NoError]
        ELSE [scene |-> drawn, camera |-> view, err |-> NoError]

(***************************************************************************)
(* Inputs: the OBJ files and the scene files the application can open.     *)
(***************************************************************************)
V(x, y, z) == [kind |-> "v", parts |-> <<x, y, z>>]
F(refs) == [kind |-> "f", parts |-> refs]
Comment == [kind |-> "#", parts |-> <<>>]

TriObj == <<Comment, V(0, 0, 0), V(2, 0, 0), V(0, 1, 0), F(<<<<1>>, <<2>>, <<3>>>>)>>
QuadObj == <<V(0, 0, 0), V(1, 0, 0), V(1, 1, 0), V(0, 1, 0),
             F(<<<<1, 1>>, <<2, 2>>, <<3, 3>>, <<4, 4>>>>)>>
PentaObj == <<V(0, 0, 0), V(1, 0, 0), V(1, 1, 0), V(0, 1, 0), V(0, 0, 1),
              F(<<<<1>>, <<2>>, <<3>>, <<4>>, <<5>>>>)>>

\* The OBJ files handed to a stand-alone loader: up to MaxVerts vertex lines,
\* up to MaxFaces face lines of 3, 4 or 5 references, and the files above.
Coords == {-1, 0, 2}
VertexLines == {V(x, y, z) : x \in Coords, y \in Coords, z \in Coords}
Refs == {<<1>>, <<3, 7>>}
FaceLines == {F(refs) : refs \in UNION {[1..k -> Refs] : k \in {3, 4, 5}}}
VertexFiles == UNION {[1..k -> VertexLines] : k \in 0..MaxVerts}
FaceFiles == UNION {[1..k -> FaceLines] : k \in 1..MaxFaces}
ObjFiles == VertexFiles \cup FaceFiles \cup {TriObj, QuadObj, PentaObj}

D(scale, translation) == [scale |-> scale, translation |-> translation]

Node(name, transformation, children) ==
    [name |-> name, type |-> "node", transformation |-> transformation,
     content |-> "", children |-> children]
Model(name, content, transformation, children) ==
    [name |-> name, type |-> "model", transformation |-> transformation,
     content |-> content, children |-> children]
M(name, o) == [name |-> name, obj |-> o]

SceneFiles ==
    [ single |->
        [models |-> <<M("cube", TriObj)>>,
         scenegraph |-> Node("root", D(2, 1), <<Model("m", "cube", D(1, 1), <<>>)>>)],
      chain |->
        [models |-> <<M("cube", QuadObj)>>,
         scenegraph |-> Node("root", D(1, 1),
            <<Node("a", D(2, 0), <<Model("b", "cube", D(2, 1), <<>>)>>)>>)],
      family |->
        [models |-> <<M("cube", TriObj), M("quad", QuadObj)>>,
         scenegraph |-> Node("root", D(2, 0),
            <<Node("b", D(1, 1), <<Model("a", "quad", D(2, 1), <<>>)>>),
              Model("a", "cube", D(2, 0), <<>>)>>)],
      modelroot |->
        [models |-> <<M("cube", TriObj)>>,
         scenegraph |-> Model("root", "cube", D(2, 1),
            <<Model("m", "cube", D(2, 0), <<>>)>>)],
      lonely |->
        [models |-> <<>>,
         scenegraph |-> Node("root", D(2, 1), <<>>)],
      twice |->
        [models |-> <<M("cube", TriObj), M("cube", QuadObj)>>,
         scenegraph |-> Node("root", D(1, 1), <<Model("m", "cube", D(2, 0), <<>>)>>)],
      twice_false |->
        [models |-> <<M("false", TriObj), M("false", QuadObj)>>,
         scenegraph |-> Node("root", D(1, 1), <<Model("m", "false", D(2, 0), <<>>)>>)],
      ghost |->
        [models |-> <<M("cube", TriObj)>>,
         scenegraph |-> Node("root", D(2, 1),
            <<Node("a", D(1, 1), <<>>), Model("g", "ghost", D(2, 0), <<>>)>>)],
      ghostfirst |->
        [models |-> <<>>,
         scenegraph |-> Node("root", D(2, 1), <<Model("g", "ghost", D(1, 1), <<>>)>>)],
      penta |->
        [models |-> <<M("cube", TriObj), M("bad", PentaObj)>>,
         scenegraph |-> Node("root", D(2, 1), <<Model("m", "cube", D(1, 1), <<>>)>>)],
      named_false |->
        [models |-> <<M("false", TriObj), M("cube", QuadObj)>>,
         scenegraph |-> Node("root", D(2, 1), <<Model("m", "cube", D(1, 1), <<>>)>>)]
    ]

\* this.loadModels(scene_config.models) for each scene file: the files do
\* not change, so neither does what loading them gives.
LoadedModels == [f \in DOMAIN SceneFiles |-> loadModels(SceneFiles[f].models)]

\* The transformations a caller may hand to setTransformation.
Transformations == {<<1, 1>>, <<2, 0>>, <<2, 1>>}

\* The names a caller may look up.
LookupNames == {"root", "a", "m", "nobody"}

\* The UI states and the mouse states handed to update.
DrawModes == {"Points", "Triangles"}
Controls == {"Camera", "Scene Node"}
Mouse(left, middle, right, space, dx, dy) ==
    [down |-> <<left, middle, right>>, space |-> space, dx |-> dx, dy |-> dy]
Mice ==
    { Mouse(FALSE, FALSE, FALSE, FALSE, 1, 5),
      Mouse(FALSE, FALSE, TRUE, FALSE, 0, 5),
      Mouse(TRUE, FALSE, FALSE, FALSE, 0, 0),
      Mouse(TRUE, FALSE, FALSE, FALSE, 1, 0),
      Mouse(TRUE, FALSE, FALSE, TRUE, 1, 0),
      Mouse(FALSE, TRUE, FALSE, FALSE, 1, 0) }

\* The selections update can read: it reads none in 'Camera' mode.
Selections(control) ==
    IF control = "Scene Node" THEN LookupNames ELSE {"nobody"}

\* this.right and this.up on the modelled axis.
Views == {[right |-> 1, up |-> 0], [right |-> 0, up |-> 1]}
InitialView == [right |-> 1, up |-> 0]

(***************************************************************************)
(* The state machine                                                       *)
(***************************************************************************)
NoScene == [loaded |-> FALSE, models |-> NoModels, nodes |-> <<>>, scenegraph |-> 0]
NoBuild == [models |-> NoModels, nodes |-> <<>>, stack |-> <<>>]
NoCall == [op |-> "none", arg |-> <<>>, val |-> <<>>]
Call(op, arg, val) == [op |-> op, arg |-> arg, val |-> val]

Init ==
    /\ scene = NoScene
    /\ pc = "idle"
    /\ build = NoBuild
    /\ err = NoError
    /\ call = NoCall
    /\ obj = <<>>
    /\ camera = InitialView

\* An exception leaves the onOpen3DScene callback before `this.scene = ...`.
Throw_clearingScene(e) ==
    /\ pc' = "idle"
    /\ err' = e
    /\ scene' = NoScene

Throw(e) ==
    /\ pc' = "idle"
    /\ err' = e
    /\ scene' = scene

Top == build.stack[Len(build.stack)]

\* onOpen3DScene(filename), up to the call of loadScenegraphNode on the root.
Open3DScene(filename) ==
    /\ pc = "idle"
    /\ LET scene_config == SceneFiles[filename]
           models == LoadedModels[filename]
       IN  /\ call' = Call("Scene", filename, <<>>)
           /\ IF models.err # NoError
              THEN /\ Throw(models.err)
                   /\ build' = NoBuild
              ELSE /\ pc' = "building"
                   /\ err' = NoError
                   /\ scene' = scene
                   /\ build' = [models |-> models.val, nodes |-> <<>>,
                                stack |-> <<[cfg |-> scene_config.scenegraph,
                                             node |-> 0, i |-> 1]>>]
    /\ UNCHANGED <<obj, camera>>

\* loadScenegraphNode, lines 59-77: the node of the entered configuration.
CreateNode ==
    /\ pc = "building"
    /\ Top.node = 0
    /\ LET created == createNode(build.models, Top.cfg)
       IN  IF created.err # NoError
           THEN /\ Throw(created.err)
                /\ build' = build
           ELSE /\ build' = [build EXCEPT
                        !.nodes = Append(@, created.val),
                        !.stack[Len(build.stack)].node = Len(build.nodes) + 1]
                /\ UNCHANGED <<pc, err, scene>>
    /\ UNCHANGED <<call, obj, camera>>

\* loadScenegraphNode, line 80: the recursive call for the next child.
EnterChild ==
    /\ pc = "building"
    /\ Top.node # 0
    /\ Top.i <= Len(Top.cfg.children)
    /\ build' = [build EXCEPT !.stack =
                    Append(@, [cfg |-> Top.cfg.children[Top.i], node |-> 0, i |-> 1])]
    /\ UNCHANGED <<scene, pc, err, call, obj, camera>>

\* loadScenegraphNode, lines 85 and 81-82: the child is returned and linked.
LinkChild ==
    /\ pc = "building"
    /\ Top.node # 0
    /\ Top.i > Len(Top.cfg.children)
    /\ Len(build.stack) > 1
    /\ LET d == Len(build.stack)
           child_node == Top.node
           node == build.stack[d - 1].node
       IN  build' = [build EXCEPT
                !.nodes = setParent(addChild(@, node, child_node), child_node, node),
                !.stack = [SubSeq(@, 1, d - 1) EXCEPT ![d - 1].i = @ + 1]]
    /\ UNCHANGED <<scene, pc, err, call, obj, camera>>

\* The root is returned; constructor line 26; `this.scene = new Scene(...)`.
FinishScene ==
    /\ pc = "building"
    /\ Top.node # 0
    /\ Top.i > Len(Top.cfg.children)
    /\ Len(build.stack) = 1
    /\ scene' = [loaded |-> TRUE, models |-> build.models,
                 nodes |-> setRootTransformation(build.nodes, Top.node),
                 scenegraph |-> Top.node]
    /\ pc' = "idle"
    /\ build' = NoBuild
    /\ UNCHANGED <<err, call, obj, camera>>

\* node.setTransformation(transformation) on a node of the active scene.
SetTransformation(n, transformation) ==
    /\ pc = "idle"
    /\ scene.loaded
    /\ n \in 1..Len(scene.nodes)
    /\ scene' = [scene EXCEPT !.nodes = setTransformation(@, n, transformation)]
    /\ call' = Call("setTransformation", n, <<>>)
    /\ err' = NoError
    /\ UNCHANGED <<pc, build, obj, camera>>

\* scene.getNodes()
GetNodes ==
    /\ pc = "idle"
    /\ scene.loaded
    /\ call' = Call("getNodes", <<>>, Scene_getNodes(scene))
    /\ err' = NoError
    /\ UNCHANGED <<scene, pc, build, obj, camera>>

\* scene.getNode(name)
GetNode(name) ==
    /\ pc = "idle"
    /\ scene.loaded
    /\ LET node == Scene_getNode(scene, name)
       IN  /\ call' = Call("getNode", name, node.val)
           /\ err' = node.err
    /\ UNCHANGED <<scene, pc, build, obj, camera>>

\* app.update(gl, app_state, delta_time); the node transformations stay
\* within Transformations.
Update(drawMode, control, select, mouse, moved) ==
    /\ pc = "idle"
    /\ LET in == [drawMode |-> drawMode, control |-> control,
                  select |-> select, mouse |-> mouse]
       IN  \E updated \in {WebGlApp_update(scene, camera, in, moved)} :
           /\ \A n \in 1..Len(updated.scene.nodes) :
                 updated.scene.nodes[n].transformation \in Transformations
           /\ scene' = updated.scene
           /\ camera' = updated.camera
           /\ err' = updated.err
           /\ call' = Call("update", in, <<>>)
    /\ UNCHANGED <<pc, build, obj>>

\* app.render(gl)
Render ==
    /\ pc = "idle"
    /\ call' = Call("render", <<>>, WebGlApp_render(scene))
    /\ err' = NoError
    /\ UNCHANGED <<scene, pc, build, obj, camera>>

Next ==
    \/ \E filename \in DOMAIN SceneFiles : Open3DScene(filename)
    \/ CreateNode
    \/ EnterChild
    \/ LinkChild
    \/ FinishScene
    \/ \E n \in 1..Len(scene.nodes), transformation \in Transformations :
            SetTransformation(n, transformation)
    \/ GetNodes
    \/ \E name \in LookupNames : GetNode(name)
    \/ Render

Spec == Init /\ [][Next]_vars

(***************************************************************************)
(* The application: scenes are opened, and every frame calls update and    *)
(* render.                                                                 *)
(***************************************************************************)
NextApp ==
    \/ \E filename \in DOMAIN SceneFiles : Open3DScene(filename)
    \/ CreateNode
    \/ EnterChild
    \/ LinkChild
    \/ FinishScene
    \/ \E drawMode \in DrawModes, control \in Controls, mouse \in Mice :
          \E select \in Selections(control), moved \in Views :
            Update(drawMode, control, select, mouse, moved)
    \/ Render

SpecApp == Init /\ [][NextApp]_vars

(***************************************************************************)
(* The loader on its own: new OBJLoader(filename).load()                   *)
(***************************************************************************)
InitLoad ==
    /\ scene = NoScene
    /\ pc = "idle"
    /\ build = NoBuild
    /\ err = NoError
    /\ call = NoCall
    /\ obj \in ObjFiles
    /\ camera = InitialView

LoadObj ==
    /\ call.op = "none"
    /\ LET loaded == load(obj)
       IN  /\ call' = Call("load", <<>>, loaded.val)
           /\ err' = loaded.err
    /\ UNCHANGED <<scene, pc, build, obj, camera>>

NextLoad == LoadObj

SpecLoad == InitLoad /\ [][NextLoad]_vars

(***************************************************************************)
(* Properties                                                              *)
(***************************************************************************)
\* The product of the local transformations from the root down to node n.
RECURSIVE ProductToRoot(_, _)
ProductToRoot(nodes, n) ==
    IF nodes[n].parent = 0 THEN nodes[n].transformation
    ELSE mat4_multiply(ProductToRoot(nodes, nodes[n].parent), nodes[n].transformation)

WorldsConsistent(nodes) ==
    \A n \in 1..Len(nodes) :
        nodes[n].world_transformation = ProductToRoot(nodes, n)

RECURSIVE IsAncestor(_, _, _)
IsAncestor(nodes, a, n) ==
    /\ nodes[n].parent # 0
    /\ \/ nodes[n].parent = a
       \/ IsAncestor(nodes, a, nodes[n].parent)

\* C1: in a built scene tree, after any sequence of setTransformation calls,
\* every node's cached world transformation is the product of the local
\* transformations of its ancestors, root first, followed by its own.
C1_WorldIsProductOfLocals ==
    scene.loaded => WorldsConsistent(scene.nodes)

\* setTransformation was last called on an inner node (it has a parent and a
\* child), and the cached world transformation of its child differs from the
\* child's local one.
C1_Witness ==
    /\ scene.loaded
    /\ call.op = "setTransformation"
    /\ scene.nodes[call.arg].parent # 0
    /\ scene.nodes[call.arg].children # <<>>
    /\ \E c \in 1..Len(scene.nodes) :
          /\ scene.nodes[c].parent = call.arg
          /\ scene.nodes[c].world_transformation # scene.nodes[c].transformation

\* The world transformations a configuration tree calls for, in pre-order.
RECURSIVE ExpectedWorlds(_, _)
RECURSIVE ExpectedWorldsOfChildren(_, _, _)
ExpectedWorldsOfChildren(children, i, prefix) ==
    IF i > Len(children) THEN <<>>
    ELSE ExpectedWorlds(children[i], prefix)
            \o ExpectedWorldsOfChildren(children, i + 1, prefix)
ExpectedWorlds(node_config, prefix) ==
    LET world == mat4_multiply(prefix, json2transform(node_config.transformation))
    IN  <<world>> \o ExpectedWorldsOfChildren(node_config.children, 1, world)

ConstructorReturned ==
    pc = "idle" /\ call.op = "Scene" /\ err = NoError

\* C2: when the Scene constructor returns, every node's cached world
\* transformation is the root-to-node product of the configured local
\* transformations; the scene file with a root and one model child gives a tree
\* of 2 nodes whose child has world = root-local * child-local.
C2_ConstructorBuildsWorlds ==
    ConstructorReturned =>
        LET expected == ExpectedWorlds(SceneFiles[call.arg].scenegraph, mat4_create)
        IN  /\ Len(scene.nodes) = Len(expected)
            /\ \A n \in 1..Len(scene.nodes) :
                  scene.nodes[n].world_transformation = expected[n]
            /\ WorldsConsistent(scene.nodes)
            /\ call.arg = "single" =>
                  /\ Len(scene.nodes) = 2
                  /\ scene.nodes[2].world_transformation =
                        mat4_multiply(scene.nodes[1].transformation,
                                      scene.nodes[2].transformation)

\* The constructor returned for the chain scene file, whose leaf has two
\* ancestors with transformations other than the identity.
C2_Witness ==
    /\ ConstructorReturned
    /\ call.arg = "chain"
    /\ Len(scene.nodes) = 3
    /\ scene.nodes[3].world_transformation # scene.nodes[3].transformation

\* C3 as stated: during the build, the cached world transformation of every
\* node that has been linked to a parent already is the product of the local
\* transformations from the top of its tree down to it.
C3_NoStaleCacheAfterLink ==
    pc = "building" =>
        \A n \in 1..Len(build.nodes) :
            build.nodes[n].parent # 0 =>
                build.nodes[n].world_transformation = ProductToRoot(build.nodes, n)

\* C3 as amended: until the final setTransformation of the root, the cached
\* world transformation of every node built so far is the node's own local
\* transformation, whether or not the node has been linked to a parent.
C3_WorldIsLocalUntilFinalPass ==
    pc = "building" =>
        \A n \in 1..Len(build.nodes) :
            build.nodes[n].world_transformation = build.nodes[n].transformation

\* A child has just been linked, and its cached world transformation is not
\* the product over its ancestors.
C3_Witness ==
    /\ pc = "building"
    /\ \E n \in 1..Len(build.nodes) :
          /\ build.nodes[n].parent # 0
          /\ build.nodes[n].world_transformation # ProductToRoot(build.nodes, n)

\* C4: once the Scene constructor has returned, and after every
\* setTransformation call, the transformation of each model node's Object3D is
\* the node's cached world transformation.
C4_RenderableMirrorsWorld ==
    scene.loaded =>
        \A n \in 1..Len(scene.nodes) :
            isModelNode(scene.nodes[n]) =>
                scene.nodes[n].obj3d.transformation =
                    scene.nodes[n].world_transformation

\* setTransformation was last called on a proper ancestor of a model node, and
\* that model node's Object3D holds a world transformation that is not the
\* node's local one.
C4_Witness ==
    /\ scene.loaded
    /\ call.op = "setTransformation"
    /\ \E n \in 1..Len(scene.nodes) :
          /\ isModelNode(scene.nodes[n])
          /\ IsAncestor(scene.nodes, call.arg, n)
          /\ scene.nodes[n].obj3d.transformation = scene.nodes[n].world_transformation
          /\ scene.nodes[n].obj3d.transformation # scene.nodes[n].transformation

RECURSIVE SubtreeSize(_, _)
RECURSIVE SubtreeSizes(_, _, _)
SubtreeSizes(nodes, children, k) ==
    IF k < 1 THEN 0
    ELSE SubtreeSize(nodes, children[k]) + SubtreeSizes(nodes, children, k - 1)
SubtreeSize(nodes, n) ==
    1 + SubtreeSizes(nodes, nodes[n].children, Len(nodes[n].children))

Position(list, n) == CHOOSE i \in 1..Len(list) : list[i] = n

\* list is the depth-first pre-order of the tree below root: every node once,
\* the root first, each child right after its parent and the subtrees of its
\* earlier siblings.
IsPreOrder(list, nodes, root) ==
    /\ Len(list) = Len(nodes)
    /\ \A n \in 1..Len(nodes) : Cardinality({i \in 1..Len(list) : list[i] = n}) = 1
    /\ list[1] = root
    /\ \A p \in 1..Len(nodes) : \A k \in 1..Len(nodes[p].children) :
          Position(list, nodes[p].children[k]) =
              Position(list, p) + 1 + SubtreeSizes(nodes, nodes[p].children, k - 1)

\* C5: getNodes() returns the N nodes of the tree in depth-first pre-order,
\* each exactly once, a parent before its children, siblings in the order of
\* the children list.
C5_GetNodesIsPreOrder ==
    (pc = "idle" /\ call.op = "getNodes") =>
        IsPreOrder(call.val, scene.nodes, scene.scenegraph)

\* getNodes() returned four nodes of a tree whose root has two children, the
\* first of them with a child of its own.
C5_Witness ==
    /\ pc = "idle"
    /\ call.op = "getNodes"
    /\ Len(call.val) = 4
    /\ Len(scene.nodes[scene.scenegraph].children) = 2
    /\ scene.nodes[scene.nodes[scene.scenegraph].children[1]].children # <<>>

\* C6: getNode(name) returns the first node of getNodes() with that name, and
\* throws the node-not-found error exactly when no node has the name; it never
\* returns null.
C6_GetNodeFirstInPreOrder ==
    (pc = "idle" /\ call.op = "getNode") =>
        LET order == Scene_getNodes(scene)
            matches == {i \in 1..Len(order) : scene.nodes[order[i]].name = call.arg}
        IN  IF matches = {}
            THEN err = NodeNotFound
            ELSE /\ err = NoError
                 /\ call.val # 0
                 /\ call.val = order[CHOOSE i \in matches : \A j \in matches : i <= j]

\* getNode found a node below a child of the root although a child of the root
\* further on carries the same name.
C6_Witness ==
    /\ pc = "idle"
    /\ call.op = "getNode"
    /\ err = NoError
    /\ scene.nodes[call.val].parent # 0
    /\ scene.nodes[call.val].parent # scene.scenegraph
    /\ \E m \in 1..Len(scene.nodes) :
          /\ m # call.val
          /\ scene.nodes[m].name = call.arg
          /\ scene.nodes[m].parent = scene.scenegraph

FaceLinesOf(contents) == SelectSeq(contents, LAMBDA line : line.kind = "f")
VertexLinesOf(contents) == SelectSeq(contents, LAMBDA line : line.kind = "v")

\* What a face of 3 or 4 references emits: the 0-based leading fields, a quad
\* as the fan (a, b, c), (a, c, d).
Emission(face) ==
    LET a == face.parts[1][1] - 1
        b == face.parts[2][1] - 1
        c == face.parts[3][1] - 1
    IN  IF Len(face.parts) = 3 THEN <<a, b, c>>
        ELSE <<a, b, c, a, c, face.parts[4][1] - 1>>

RECURSIVE Emissions(_)
Emissions(faces) ==
    IF faces = <<>> THEN <<>> ELSE Emission(Head(faces)) \o Emissions(Tail(faces))

LoadReturned == call.op = "load" /\ err = NoError

\* C7: a face of 3 references [a,b,c] emits [a-1,b-1,c-1], a face of 4
\* references [a,b,c,d] emits [a-1,b-1,c-1,a-1,c-1,d-1], from the leading
\* field of each reference only, and the index buffer is the concatenation of
\* the emissions in face order.
C7_FacesEmitByArity ==
    (call.op = "load"
       /\ \A i \in 1..Len(FaceLinesOf(obj)) : Len(FaceLinesOf(obj)[i].parts) \in {3, 4})
    => /\ err = NoError
       /\ call.val.indices = Emissions(FaceLinesOf(obj))

\* load returned for a file of two faces, a triangle and then a quad whose
\* first and last references differ and carry further fields.
C7_Witness ==
    /\ LoadReturned
    /\ Len(FaceLinesOf(obj)) = 2
    /\ Len(FaceLinesOf(obj)[1].parts) = 3
    /\ Len(FaceLinesOf(obj)[2].parts) = 4
    /\ FaceLinesOf(obj)[2].parts[1] = <<3, 7>>
    /\ FaceLinesOf(obj)[2].parts[4] = <<1>>
    /\ Len(call.val.indices) = 9

\* The flattened vertex buffer is centred and spans 2: every coordinate is
\* finite, on each axis min + max = 0, no axis spans more than 2 and one axis
\* spans exactly 2.
Normalized(vertices) ==
    LET n == Len(vertices) \div 3
        at(i, j) == vertices[3 * (i - 1) + j]
        IsLow(i, j) == \A k \in 1..n : FLe(at(i, j), at(k, j))
        IsHigh(i, j) == \A k \in 1..n : FLe(at(k, j), at(i, j))
        Bounded(j, P(_)) ==
            \E lo \in 1..n, hi \in 1..n :
                /\ IsLow(lo, j) /\ IsHigh(hi, j)
                /\ FEq(FAdd(at(lo, j), at(hi, j)), Num(0))
                /\ P(FAdd(at(hi, j), FNeg(at(lo, j))))
    IN  /\ \A k \in 1..Len(vertices) : IsFinite(vertices[k])
        /\ \A j \in 1..3 : Bounded(j, LAMBDA span : FLe(span, Num(2)))
        /\ \E j \in 1..3 : Bounded(j, LAMBDA span : FEq(span, Num(2)))

Coincident(vlines) ==
    \A i \in 1..Len(vlines) : vlines[i].parts = vlines[1].parts

\* C10 as stated: every mesh load returns, also one with a single vertex,
\* coincident vertices or no vertex, is centred at the origin with a largest
\* span of 2 and finite coordinates.
C10_EveryMeshNormalized ==
    LoadReturned => Normalized(call.val.vertices)

\* C10 as amended: a mesh whose vertices do not all coincide is centred at the
\* origin with a largest span of 2 and finite coordinates; when all vertices
\* coincide every coordinate returned is NaN, and a file without vertices
\* gives an empty vertex buffer.
C10_NormalizedUnlessDegenerate ==
    LoadReturned =>
        LET vlines == VertexLinesOf(obj)
        IN  /\ Len(call.val.vertices) = 3 * Len(vlines)
            /\ IF Coincident(vlines)
               THEN \A k \in 1..Len(call.val.vertices) : IsNaN(call.val.vertices[k])
               ELSE Normalized(call.val.vertices)

\* load returned a mesh of two vertices that differ by 3 on one axis, by 2 on
\* another and not at all on the third.
C10_Witness ==
    /\ LoadReturned
    /\ VertexLinesOf(obj) = <<V(-1, 0, 2), V(2, 2, 2)>>
    /\ Normalized(call.val.vertices)

LoadTimeErrors == {UnsupportedFaceFormat, ModelNotFound, TypeError}

\* The scene file declares a model whose OBJ file has a face that is neither a
\* triangle nor a quad.
HasUnsupportedFace(filename) ==
    \E i \in 1..Len(SceneFiles[filename].models) :
        LET faces == FaceLinesOf(SceneFiles[filename].models[i].obj)
        IN  \E k \in 1..Len(faces) : Len(faces[k].parts) \notin {3, 4}

\* C8: a load-time error raised while a scene is opened (an unsupported face,
\* a missing model) aborts the construction and leaves the active scene as it
\* was: no step of a build, and no step that raises such an error, changes the
\* application's scene, and opening a file with an unsupported face ends with
\* the unsupported-face-format error.
C8_LoadErrorKeepsActiveScene ==
    /\ []((pc = "idle" /\ call.op = "Scene" /\ HasUnsupportedFace(call.arg))
            => err = UnsupportedFaceFormat)
    /\ [][(pc' = "building" \/ err' \in LoadTimeErrors)
            => (scene' = scene /\ (err' \in LoadTimeErrors => pc' = "idle"))]_vars

\* Opening a file with a 5-reference face has failed while a scene of four
\* nodes, one of them moved by setTransformation, is still the active one.
C8_Witness ==
    /\ pc = "idle"
    /\ call.op = "Scene"
    /\ call.arg = "penta"
    /\ err = UnsupportedFaceFormat
    /\ scene.loaded
    /\ Len(scene.nodes) = 4
    /\ scene.nodes[2].transformation = <<2, 1>>

\* The build stopped in the switch of loadScenegraphNode: the configuration of
\* the node that could not be created is on top of the stack.
BuildThrewAtNode ==
    pc = "idle" /\ call.op = "Scene" /\ err # NoError /\ build.stack # <<>>

\* C9: a model node whose content is no key of the model table makes the build
\* fail with the model-not-found error before any addChild has been performed,
\* and the model-not-found error is never raised for a content that is a key
\* of the model table.
C9_MissingModelRaisesModelNotFound ==
    BuildThrewAtNode =>
        /\ Top.cfg.content \notin DOMAIN build.models =>
              /\ err = ModelNotFound
              /\ \A n \in 1..Len(build.nodes) : build.nodes[n].children = <<>>
        /\ err = ModelNotFound => Top.cfg.content \notin DOMAIN build.models

ModelNodesOf(s) ==
    SelectSeq(Scene_getNodes(s), LAMBDA n : isModelNode(s.nodes[n]))

Occurrences(list, n) == Cardinality({i \in 1..Len(list) : list[i] = n})

\* C11: one render of a loaded scene draws every model node exactly once and
\* no generic node, in the order in which getNodes() lists the model nodes
\* (a node before its descendants, siblings in child order), model nodes
\* below model nodes included.
C11_RenderDrawsModelNodesInPreOrder ==
    (call.op = "render" /\ scene.loaded) =>
        /\ call.val.box
        /\ call.val.scene = ModelNodesOf(scene)
        /\ \A n \in 1..Len(scene.nodes) :
              Occurrences(call.val.scene, n) =
                  IF isModelNode(scene.nodes[n]) THEN 1 ELSE 0

\* A model root with a model child has been rendered: root, then child.
C11_Witness ==
    /\ call.op = "render"
    /\ scene.loaded
    /\ Len(scene.nodes) = 2
    /\ isModelNode(scene.nodes[1])
    /\ isModelNode(scene.nodes[2])
    /\ scene.nodes[2].parent = 1
    /\ call.val.scene = <<1, 2>>

\* The node n and its descendants.
Subtree(nodes, n) == {m \in 1..Len(nodes) : m = n \/ IsAncestor(nodes, n, m)}

\* The links of the tree: every node's name, type, parent and children.
Links(nodes) ==
    [m \in 1..Len(nodes) |->
        [name |-> nodes[m].name, type |-> nodes[m].type,
         parent |-> nodes[m].parent, children |-> nodes[m].children]]

\* C12: setTransformation(T) on a node n changes only the local
\* transformation of n and the cached worlds and renderable placements of n
\* and its descendants: every other local, every world and renderable
\* outside the subtree, and all parent links and children lists stay as
\* they were.
C12_SetTransformationFrame ==
    [][(call'.op = "setTransformation" /\ scene.loaded) =>
        LET n == call'.arg
            old == scene.nodes
            new == scene'.nodes
        IN  /\ scene'.loaded
            /\ scene'.scenegraph = scene.scenegraph
            /\ scene'.models = scene.models
            /\ Links(new) = Links(old)
            /\ \A m \in 1..Len(old) :
                  /\ m # n => new[m].transformation = old[m].transformation
                  /\ m \notin Subtree(old, n) => new[m] = old[m]
                  /\ new[m].obj3d.present = old[m].obj3d.present
                  /\ new[m].obj3d.draw_mode = old[m].obj3d.draw_mode
                  /\ new[m].obj3d.mesh = old[m].obj3d.mesh]_vars

\* setTransformation has acted on a node that has a parent, a sibling and a
\* model child: its local is the one handed in, the child's renderable sits
\* at the new world, and the sibling still has its own local.
C12_Witness ==
    /\ call.op = "setTransformation"
    /\ scene.loaded
    /\ Len(scene.nodes) = 4
    /\ call.arg = 2
    /\ scene.nodes[2].parent = 1
    /\ scene.nodes[2].children = <<3>>
    /\ scene.nodes[2].transformation = <<2, 1>>
    /\ scene.nodes[3].obj3d.present
    /\ scene.nodes[3].obj3d.transformation =
           mat4_multiply(scene.nodes[2].world_transformation,
                         scene.nodes[3].transformation)
    /\ scene.nodes[3].transformation # scene.nodes[2].transformation
    /\ scene.nodes[4].transformation # scene.nodes[2].transformation

NoSuchNode(s, name) == \A n \in 1..Len(s.nodes) : s.nodes[n].name # name

\* Every node's local and cached world transformation.
Transforms(nodes) ==
    [m \in 1..Len(nodes) |->
        [transformation |-> nodes[m].transformation,
         world_transformation |-> nodes[m].world_transformation]]

UpdateReturned == pc = "idle" /\ call.op = "update"

\* C13: an update in 'Scene Node' mode whose selected name no node of the
\* loaded scene has raises the node-not-found error, and the scene is not
\* torn down: the application still holds the same scene, with the same
\* tree and the same local and world transformation on every node.
C13_FailedLookupKeepsScene ==
    /\ []((UpdateReturned /\ scene.loaded /\ call.arg.control = "Scene Node"
            /\ NoSuchNode(scene, call.arg.select))
           => err = NodeNotFound)
    /\ [][(call'.op = "update" /\ err' = NodeNotFound) =>
            /\ scene.loaded /\ scene'.loaded
            /\ call'.arg.control = "Scene Node"
            /\ NoSuchNode(scene, call'.arg.select)
            /\ scene'.scenegraph = scene.scenegraph
            /\ scene'.models = scene.models
            /\ Links(scene'.nodes) = Links(scene.nodes)
            /\ Transforms(scene'.nodes) = Transforms(scene.nodes)]_vars

\* An update that drags with the right button in 'Scene Node' mode has
\* failed to find its node in a scene of four nodes, which is still there.
C13_Witness ==
    /\ UpdateReturned
    /\ call.arg.control = "Scene Node"
    /\ call.arg.select = "nobody"
    /\ isMouseDown(call.arg.mouse, 2)
    /\ err = NodeNotFound
    /\ scene.loaded
    /\ Len(scene.nodes) = 4
    /\ WorldsConsistent(scene.nodes)

RECURSIVE ConfigSize(_)
RECURSIVE ConfigSizes(_, _)
\* The number of nodes a node configuration declares.
ConfigSizes(children, k) ==
    IF k < 1 THEN 0
    ELSE ConfigSize(children[k]) + ConfigSizes(children, k - 1)
ConfigSize(node_config) ==
    1 + ConfigSizes(node_config.children, Len(node_config.children))

RECURSIVE ExpectedLinks(_, _, _)
RECURSIVE ExpectedLinksOfChildren(_, _, _, _)
\* The links a node configuration declares, its nodes numbered in the order
\* of their declaration from id on: each declared child in turn, with its
\* own declarations before the next child.
ExpectedLinksOfChildren(children, i, id, parent) ==
    IF i > Len(children) THEN <<>>
    ELSE ExpectedLinks(children[i], id, parent)
            \o ExpectedLinksOfChildren(children, i + 1,
                                        id + ConfigSize(children[i]), parent)
ExpectedLinks(node_config, id, parent) ==
    LET children == node_config.children
    IN  <<[name |-> node_config.name, type |-> node_config.type, parent |-> parent,
           children |-> [i \in 1..Len(children) |->
                            id + 1 + ConfigSizes(children, i - 1)]]>>
        \o ExpectedLinksOfChildren(children, 1, id + 1, id)

RECURSIVE ReachesRoot(_, _, _)
\* Following parent links from n ends at the root within k steps.
ReachesRoot(s, n, k) ==
    \/ n = s.scenegraph
    \/ /\ k > 0
       /\ s.nodes[n].parent # 0
       /\ ReachesRoot(s, s.nodes[n].parent, k - 1)

\* C14: in a built scene the parent and child links agree in both
\* directions: the root has no parent; every other node occurs exactly once in
\* the children of its parent and in no other children list; following
\* parents from any node ends at the root (a tree); and when the constructor
\* returns the children of every node are the declared children in the
\* order of the configuration.
C14_LinksFormTreeInConfigOrder ==
    /\ scene.loaded =>
          LET nodes == scene.nodes
              N == Len(nodes)
          IN  /\ nodes[scene.scenegraph].parent = 0
              /\ \A c \in 1..N, p \in 1..N :
                    Occurrences(nodes[p].children, c) =
                        IF nodes[c].parent = p THEN 1 ELSE 0
              /\ \A c \in 1..N :
                    /\ c # scene.scenegraph => nodes[c].parent \in 1..N
                    /\ ReachesRoot(scene, c, N)
    /\ ConstructorReturned =>
          Links(scene.nodes) = ExpectedLinks(SceneFiles[call.arg].scenegraph, 1, 0)

\* The constructor has returned a tree whose root has two children, the
\* first of which has a child of its own.
C14_Witness ==
    /\ ConstructorReturned
    /\ scene.loaded
    /\ scene.nodes[1].children = <<2, 4>>
    /\ scene.nodes[2].children = <<3>>
    /\ scene.nodes[2].name = "b"
    /\ scene.nodes[4].parent = 1

\* The names a models list declares more than once.
DuplicateNames(models_config) ==
    {models_config[i].name : i \in {i \in 1..Len(models_config) :
        \E j \in 1..Len(models_config) :
            j # i /\ models_config[j].name = models_config[i].name}}

\* The mesh of the last declaration of name in a models list.
LastMesh(models_config, name) ==
    LET last == CHOOSE i \in 1..Len(models_config) :
                    /\ models_config[i].name = name
                    /\ \A j \in (i + 1)..Len(models_config) :
                          models_config[j].name # name
    IN  load(models_config[last].obj).val

RECURSIVE Contents(_)
RECURSIVE ContentsOfChildren(_, _)
\* The content of every declared node, in the order of declaration.
ContentsOfChildren(children, i) ==
    IF i > Len(children) THEN <<>>
    ELSE Contents(children[i]) \o ContentsOfChildren(children, i + 1)
Contents(node_config) ==
    <<node_config.content>> \o ContentsOfChildren(node_config.children, 1)

\* C15: a scene file whose models list declares a name more than once builds
\* without failure, and every model node whose content is such a name has the
\* mesh loaded from the last declaration of that name.
C15_DuplicateNamesLastWins ==
    (pc = "idle" /\ call.op = "Scene"
        /\ DuplicateNames(SceneFiles[call.arg].models) # {}) =>
        LET scene_config == SceneFiles[call.arg]
            contents == Contents(scene_config.scenegraph)
        IN  /\ err = NoError
            /\ scene.loaded
            /\ \A name \in DuplicateNames(scene_config.models) :
                  scene.models[name] = LastMesh(scene_config.models, name)
            /\ \A n \in 1..Len(scene.nodes) :
                  (/\ scene.nodes[n].type = "model"
                   /\ contents[n] \in DuplicateNames(scene_config.models))
                  => scene.nodes[n].obj3d.mesh =
                        LastMesh(scene_config.models, contents[n])

\* The same, for the file that declares "cube" twice: its model node has the
\* mesh of the second declaration.
C15_TwiceCubeLastWins ==
    (ConstructorReturned /\ call.arg = "twice") =>
        /\ scene.models["cube"] = load(QuadObj).val
        /\ scene.nodes[2].obj3d.mesh = load(QuadObj).val
        /\ load(QuadObj).val # load(TriObj).val

\* C16: after every update with a scene loaded and the draw mode 'Points' or
\* 'Triangles', the renderable of every model node at any depth has the
\* selected draw mode, in either control mode and also when the node lookup
\* of that update failed; no generic node was asked to set a draw mode.
C16_UpdateSetsDrawModeOfEveryModelNode ==
    (UpdateReturned /\ scene.loaded /\ call.arg.drawMode \in {"Points", "Triangles"}) =>
        \A n \in 1..Len(scene.nodes) :
            IF scene.nodes[n].type = "model"
            THEN /\ scene.nodes[n].obj3d.present
                 /\ scene.nodes[n].obj3d.draw_mode =
                        IF call.arg.drawMode = "Points" THEN POINTS ELSE TRIANGLES
            ELSE scene.nodes[n].obj3d = NoObject3D

\* An update in 'Points' mode whose lookup failed has left both model nodes
\* of a four-node scene, one of them two levels down, drawing points.
C16_Witness ==
    /\ UpdateReturned
    /\ scene.loaded
    /\ call.arg.drawMode = "Points"
    /\ call.arg.control = "Scene Node"
    /\ err = NodeNotFound
    /\ Len(scene.nodes) = 4
    /\ scene.nodes[2].type = "node"
    /\ scene.nodes[3].parent = 2
    /\ scene.nodes[3].obj3d.draw_mode = POINTS
    /\ scene.nodes[4].obj3d.draw_mode = POINTS

\* The node a selection names: the first of getNodes() with that name.
SelectedNode(s, name) ==
    LET list == Scene_getNodes(s)
        first == CHOOSE i \in 1..Len(list) :
                    /\ s.nodes[list[i]].name = name
                    /\ \A j \in 1..(i - 1) : s.nodes[list[j]].name # name
    IN  list[first]

AnyButtonDown(mouse) ==
    isMouseDown(mouse, 0) \/ isMouseDown(mouse, 1) \/ isMouseDown(mouse, 2)

\* C17: an update changes no node's local or cached world transformation
\* unless the control mode is 'Scene Node' and the right, left or middle
\* mouse button is down; when it changes one, only the selected node's local
\* and the worlds of that node and its descendants change; in 'Camera' mode
\* no node transformation changes.
C17_UpdateTransformFrame ==
    [][call'.op = "update" =>
        LET in == call'.arg
            old == scene.nodes
            new == scene'.nodes
            changed == Transforms(new) # Transforms(old)
        IN  /\ scene'.loaded = scene.loaded
            /\ Links(new) = Links(old)
            /\ in.control = "Camera" => ~changed
            /\ changed =>
                  /\ in.control = "Scene Node"
                  /\ AnyButtonDown(in.mouse)
                  /\ ~NoSuchNode(scene, in.select)
                  /\ LET n == SelectedNode(scene, in.select)
                     IN  \A m \in 1..Len(old) :
                           /\ m # n =>
                                 new[m].transformation = old[m].transformation
                           /\ m \notin Subtree(old, n) =>
                                 new[m].world_transformation =
                                     old[m].world_transformation]_vars

\* An update in 'Scene Node' mode has panned the selected node "a" of the
\* three-node chain from its configured local <<2, 0>> to <<2, 1>>: its
\* world and its model child's world moved with it, the root did not.
C17_Witness ==
    /\ UpdateReturned
    /\ err = NoError
    /\ scene.loaded
    /\ call.arg.control = "Scene Node"
    /\ call.arg.select = "a"
    /\ panning(call.arg.mouse)
    /\ Len(scene.nodes) = 3
    /\ scene.nodes[1].transformation = <<1, 1>>
    /\ scene.nodes[1].world_transformation = <<1, 1>>
    /\ scene.nodes[2].name = "a"
    /\ scene.nodes[2].transformation = <<2, 1>>
    /\ scene.nodes[2].world_transformation = <<2, 2>>
    /\ scene.nodes[3].parent = 2
    /\ scene.nodes[3].transformation = <<2, 1>>
    /\ scene.nodes[3].world_transformation = <<4, 4>>
    /\ scene.nodes[3].obj3d.transformation = <<4, 4>>

====
